---------------------------- MODULE Spec2Model ----------------------------
(***************************************************************************)
(* OPCS code validation of codelist-validator-rs (opcs_validator.rs):      *)
(* validate_code, validate_all_code and the lazily compiled REGEX; and the  *)
(* Provenance record of codelist-rs (metadata/provenance.rs).              *)
(*                                                                         *)
(* A string is a sequence of characters.  A character is named by a TLA+   *)
(* string: an ASCII character by itself ("A", "0", "."), a non-ASCII one   *)
(* by its code point ("U+0660").  A literal of a format string is one      *)
(* element of the sequence it is spliced into.                             *)
(***************************************************************************)
EXTENDS Integers, Sequences, FiniteSets, TLC

(***************************************************************************)
(* Characters                                                              *)
(***************************************************************************)
AsciiUpper == {"A", "B", "C", "D", "E", "F", "G", "H", "I", "J", "K", "L", "M",
               "N", "O", "P", "Q", "R", "S", "T", "U", "V", "W", "X", "Y", "Z"}

AsciiDigit == {"0", "1", "2", "3", "4", "5", "6", "7", "8", "9"}

\* Non-ASCII decimal digits (Unicode general category Nd):
\* U+0660 ARABIC-INDIC DIGIT ZERO, U+0966 DEVANAGARI DIGIT ZERO.
UnicodeDigit == {"U+0660", "U+0966"}

\* Non-ASCII letters: U+00C9 LATIN CAPITAL LETTER E WITH ACUTE.
UnicodeLetter == {"U+00C9"}

\* The number of bytes of a character in UTF-8, the encoding of a Rust str.
Utf8Len(ch) ==
    CASE ch \in {"U+0660"} \cup UnicodeLetter -> 2    \* U+0080..U+07FF
      [] ch = "U+0966" -> 3                          \* U+0800..U+FFFF
      [] OTHER -> 1                                  \* ASCII

RECURSIVE SumUtf8(_, _)
SumUtf8(s, i) == IF i > Len(s) THEN 0 ELSE Utf8Len(s[i]) + SumUtf8(s, i + 1)

\* str::len: the length of the string in bytes.
StrLen(s) == SumUtf8(s, 1)

\* The number of characters of the string.
CharCount(s) == Len(s)

(***************************************************************************)
(* The regex crate: a pattern is a sequence of items matched in order;     *)
(* the regex classes are Unicode-aware, so \d is every decimal digit.      *)
(***************************************************************************)
ClassUpper == AsciiUpper                      \* [A-Z]
ClassDigit == AsciiDigit \cup UnicodeDigit     \* \d
ClassDot == {"."}                             \* \.

Start == [t |-> "start"]                      \* ^
End == [t |-> "end"]                          \* $
Class(S) == [t |-> "class", set |-> S]
Rep(S, lo, hi) == [t |-> "rep", set |-> S, lo |-> lo, hi |-> hi]   \* S{lo,hi}
Opt(alts) == [t |-> "opt", alts |-> alts]     \* (alt1|alt2)?

\* The positions where item p can end when it starts at position i of s.
ItemEnds(p, s, i) ==
    CASE p.t = "start" -> IF i = 1 THEN {i} ELSE {}
      [] p.t = "end" -> IF i = Len(s) + 1 THEN {i} ELSE {}
      [] p.t = "class" -> IF i <= Len(s) /\ s[i] \in p.set THEN {i + 1} ELSE {}
      [] p.t = "rep" ->
            {j \in (i + p.lo)..(i + p.hi) :
                /\ j <= Len(s) + 1
                /\ \A k \in i..(j - 1) : s[k] \in p.set}

RECURSIVE SeqEnds(_, _, _, _)
\* The positions where items k.. of the sequence ps can end, from the set
\* of positions `from'.
SeqEnds(ps, k, s, from) ==
    IF k > Len(ps) THEN from
    ELSE LET p == ps[k]
             next == IF p.t = "opt"
                     THEN from \cup UNION {SeqEnds(p.alts[a], 1, s, from) :
                                              a \in 1..Len(p.alts)}
                     ELSE UNION {ItemEnds(p, s, i) : i \in from}
         IN  SeqEnds(ps, k + 1, s, next)

\* Regex::is_match: the pattern matches somewhere in the haystack.
IsMatch(re, s) == SeqEnds(re, 1, s, 1..(Len(s) + 1)) # {}

\* The pattern without its end anchor.
RegexNewNoEnd ==
    << Start, Class(ClassUpper), Rep(ClassDigit, 2, 2),
       Opt(<< << Class(ClassDot), Rep(ClassDigit, 1, 2) >>,
              << Rep(ClassDigit, 1, 2) >> >>) >>

\* Regex::new(r"^[A-Z]\d{2}(\.\d{1,2}|\d{1,2})?$")
RegexNew ==
    << Start, Class(ClassUpper), Rep(ClassDigit, 2, 2),
       Opt(<< << Class(ClassDot), Rep(ClassDigit, 1, 2) >>,
              << Rep(ClassDigit, 1, 2) >> >>),
       End >>

(***************************************************************************)
(* CodeListValidatorError                                                  *)
(***************************************************************************)
Ok == [tag |-> "Ok"]
invalid_code_length(code, reason) ==
    [tag |-> "InvalidCodeLength", code |-> code, reason |-> reason]
invalid_code_contents(code, reason) ==
    [tag |-> "InvalidCodeContents", code |-> code, reason |-> reason]
invalid_codelist(reasons) == [tag |-> "InvalidCodelist", reasons |-> reasons]

\* The headline of a per-code error's rendering.
Headline(err) ==
    IF err.tag = "InvalidCodeLength"
    THEN <<"Code ">> \o err.code \o <<" is an invalid length">>
    ELSE <<"Code ">> \o err.code \o <<" contents is invalid">>

RECURSIVE JoinReasons(_, _)
JoinReasons(reasons, i) ==
    IF i > Len(reasons) THEN <<>>
    ELSE (IF i > 1 THEN <<", ">> ELSE <<>>) \o reasons[i][2]
            \o JoinReasons(reasons, i + 1)

\* format!("{}", err): the error's Display rendering.
Display(err) ==
    IF err.tag = "InvalidCodelist"
    THEN <<"Some codes in the list are invalid. Details: ">>
            \o JoinReasons(err.reasons, 1)
    ELSE Headline(err) \o <<". Reason: ">> \o err.reason

(***************************************************************************)
(* static REGEX: LazyLock<Regex>                                           *)
(***************************************************************************)
Uninit == [state |-> "Uninit", value |-> <<>>]
Initialised(re) == [state |-> "Init", value |-> re]

\* LazyLock::force on one thread: the first dereference runs the closure.
Force(lazy) == IF lazy.state = "Init" THEN lazy ELSE Initialised(RegexNew)

(***************************************************************************)
(* impl OPCSValidator for CodeList                                         *)
(***************************************************************************)
\* format!("OPCS code {} <tail>", code)
FormatReason(code, tail) == <<"OPCS code ">> \o code \o <<tail>>

\* validate_code matching against REGEX as it was before this call forced it.
validate_code_unforced(self, lazy, code) ==
    IF StrLen(code) > 5
    THEN [ret |-> invalid_code_length(code,
                    FormatReason(code, " is greater than 5 characters in length")),
          lazy |-> lazy, self |-> self]
    ELSE IF StrLen(code) < 3
    THEN [ret |-> invalid_code_length(code,
                    FormatReason(code, " is less than 3 characters in length")),
          lazy |-> lazy, self |-> self]
    ELSE IF ~IsMatch(lazy.value, code)
         THEN [ret |-> invalid_code_contents(code,
                    FormatReason(code, " does not match the expected format")),
               lazy |-> Force(lazy), self |-> self]
         ELSE [ret |-> Ok, lazy |-> Force(lazy), self |-> self]

\* validate_code(&self, code): the result, REGEX and the list after the call.
validate_code(self, lazy, code) ==
    IF StrLen(code) > 5
    THEN [ret |-> invalid_code_length(code,
                    FormatReason(code, " is greater than 5 characters in length")),
          lazy |-> lazy, self |-> self]
    ELSE IF StrLen(code) < 3
    THEN [ret |-> invalid_code_length(code,
                    FormatReason(code, " is less than 3 characters in length")),
          lazy |-> lazy, self |-> self]
    ELSE LET re == Force(lazy)
         IN  IF ~IsMatch(re.value, code)
             THEN [ret |-> invalid_code_contents(code,
                        FormatReason(code, " does not match the expected format")),
                   lazy |-> re, self |-> self]
             ELSE [ret |-> Ok, lazy |-> re, self |-> self]

RECURSIVE ScanEntries(_, _, _, _)
\* The for loop of validate_all_code from entry i on.
ScanEntries(self, i, lazy, invalid_codes) ==
    IF i > Len(self.entries)
    THEN [invalid_codes |-> invalid_codes, lazy |-> lazy]
    ELSE LET code == self.entries[i].code
             r == validate_code(self, lazy, code)
         IN  IF r.ret # Ok
             THEN ScanEntries(self, i + 1, r.lazy,
                        Append(invalid_codes, <<code, Display(r.ret)>>))
             ELSE ScanEntries(self, i + 1, r.lazy, invalid_codes)

RECURSIVE ScanFailFast(_, _, _)
\* The loop stopping at the first invalid code.
ScanFailFast(self, i, lazy) ==
    IF i > Len(self.entries)
    THEN [invalid_codes |-> <<>>, lazy |-> lazy]
    ELSE LET code == self.entries[i].code
             r == validate_code(self, lazy, code)
         IN  IF r.ret # Ok
             THEN [invalid_codes |-> <<<<code, Display(r.ret)>>>>, lazy |-> r.lazy]
             ELSE ScanFailFast(self, i + 1, r.lazy)

\* validate_all_code returning at the first failure.
validate_all_code_fail_fast(self, lazy) ==
    LET scan == ScanFailFast(self, 1, lazy)
    IN  IF scan.invalid_codes = <<>>
        THEN [ret |-> Ok, lazy |-> scan.lazy, self |-> self]
        ELSE [ret |-> invalid_codelist(scan.invalid_codes),
              lazy |-> scan.lazy, self |-> self]

\* validate_all_code pushing the error's reason field, not its rendering.
validate_all_code_raw_reason(self, lazy) ==
    LET scan == ScanEntries(self, 1, lazy, <<>>)
        raw == [i \in 1..Len(scan.invalid_codes) |->
                    <<scan.invalid_codes[i][1],
                      validate_code(self, lazy, scan.invalid_codes[i][1]).ret.reason>>]
    IN  IF scan.invalid_codes = <<>>
        THEN [ret |-> Ok, lazy |-> scan.lazy, self |-> self]
        ELSE [ret |-> invalid_codelist(raw), lazy |-> scan.lazy, self |-> self]

\* validate_all_code without the is_empty test.
validate_all_code_always_err(self, lazy) ==
    LET scan == ScanEntries(self, 1, lazy, <<>>)
    IN  [ret |-> invalid_codelist(scan.invalid_codes),
         lazy |-> scan.lazy, self |-> self]

\* validate_all_code dropping the invalid entries from the list.
validate_all_code_retain_valid(self, lazy) ==
    LET scan == ScanEntries(self, 1, lazy, <<>>)
        valid(e) == validate_code(self, lazy, e.code).ret = Ok
        kept == [entries |-> SelectSeq(self.entries, valid)]
    IN  IF scan.invalid_codes = <<>>
        THEN [ret |-> Ok, lazy |-> scan.lazy, self |-> self]
        ELSE [ret |-> invalid_codelist(scan.invalid_codes),
              lazy |-> scan.lazy, self |-> kept]

\* validate_all_code(&self): the result, REGEX and the list after the call.
validate_all_code(self, lazy) ==
    LET scan == ScanEntries(self, 1, lazy, <<>>)
    IN  IF scan.invalid_codes = <<>>
        THEN [ret |-> Ok, lazy |-> scan.lazy, self |-> self]
        ELSE [ret |-> invalid_codelist(scan.invalid_codes),
              lazy |-> scan.lazy, self |-> self]

(***************************************************************************)
(* Provenance (codelist-rs, metadata/provenance.rs)                        *)
(***************************************************************************)
\* MetadataSource, as the tests name its values.
Sources == {"LoadedFromFile", "ManuallyCreated"}

\* The names contributors are drawn from.
Names == {<<"A", "n", "n">>, <<"B", "o", "b">>, <<"C", "y">>}

\* Option<HashSet<String>>: None, or Some(set).
NoContributors == [some |-> FALSE, set |-> {}]
SomeContributors(set) == [some |-> TRUE, set |-> set]

\* contributors.unwrap_or_default()
UnwrapOrDefault(opt) == IF opt.some THEN opt.set ELSE {}

\* Provenance::new(source, contributors); t0 and t1 are what the two calls
\* of chrono::Utc::now() return, in that order.
new(source, contributors, t0, t1) ==
    [source |-> source,
     created_date |-> t0,
     last_modified_date |-> t1,
     contributors |-> UnwrapOrDefault(contributors)]

\* update_last_modified_date(&mut self); t is what Utc::now() returns.
update_last_modified_date(self, t) ==
    [self EXCEPT !.last_modified_date = t]

\* add_contributor also refreshing the last-modified date.
add_contributor_touch(self, contributor, t) ==
    [self EXCEPT !.contributors = @ \cup {contributor},
                 !.last_modified_date = t]

\* add_contributor(&mut self, contributor): HashSet::insert.  The clock is
\* not read.
add_contributor(self, contributor, t) ==
    [self EXCEPT !.contributors = @ \cup {contributor}]

\* CodeListError::contributor_not_found(contributor)
contributor_not_found(contributor) ==
    [tag |-> "ContributorNotFound", contributor |-> contributor]

\* #[error("Contributor {contributor} not found")]
DisplayCodeListError(err) ==
    <<"Contributor ">> \o err.contributor \o <<" not found">>

\* remove_contributor discarding what HashSet::remove returns.
remove_contributor_silent(self, contributor) ==
    [self |-> [self EXCEPT !.contributors = @ \ {contributor}], ret |-> Ok]

\* remove_contributor(&mut self, contributor): HashSet::remove returns
\* whether the value was present.
remove_contributor(self, contributor) ==
    IF contributor \in self.contributors
    THEN [self |-> [self EXCEPT !.contributors = @ \ {contributor}],
          ret |-> Ok]
    ELSE [self |-> self, ret |-> contributor_not_found(contributor)]

\* A call on the Provenance: `present' says whether the contributor named
\* was in the set when the call was made.
PCall(name, arg, ret, present) ==
    [name |-> name, arg |-> arg, ret |-> ret, present |-> present]

(***************************************************************************)
(* State                                                                   *)
(***************************************************************************)
VARIABLES
    codelist,   \* the CodeList: its entries in the order iter() yields them
    REGEX,      \* the static LazyLock<Regex>
    inits,      \* how many times the closure of REGEX has run
    op,         \* the last call made: its name, argument and result
    codeSeen,   \* per code, the result of the first validate_code call on it
    lastAll,    \* the result of validate_all_code since the list last changed
    pc,         \* per thread, where it is in validate_code
    tcode,      \* per thread, the code it validates
    tret,       \* per thread, the result it returned
    tpat,       \* per thread, the pattern it matched against
    prov,       \* the Provenance record
    now,        \* the clock chrono::Utc::now() reads
    pop         \* the last call made on the Provenance

vars == <<codelist, REGEX, inits, op, codeSeen, lastAll, pc, tcode, tret, tpat,
          prov, now, pop>>

listVars == <<codelist, codeSeen, lastAll>>
threadVars == <<pc, tcode, tret, tpat>>
provVars == <<prov, now, pop>>
validatorVars == <<REGEX, inits, op, listVars, threadVars>>

MaxEntries == 3
MaxCodeLen == 6
NThreads == 2
MaxClock == 3

Threads == 1..NThreads

NoResult == [tag |-> "None"]

\* The codes the lists are built from: a valid code, a too long and a too
\* short one, and one of invalid contents, all from the tests.
PoolCodes ==
    { <<"C", "0", "1">>, <<"A", "0", "1", "0", "0", "0">>, <<"A", "0">>,
      <<"A", "A", "1">> }

\* The characters the single codes are built from: an upper-case and a
\* lower-case letter, a digit, the dot, the space, a non-ASCII digit and a
\* non-ASCII letter.
Alphabet == {"A", "a", "0", ".", " ", "U+0660", "U+00C9"}

Codes == UNION {[1..n -> Alphabet] : n \in 0..MaxCodeLen}

\* A call: `repeat' says that the same call was made before on the same
\* code, or on the list since it last changed.
Call(name, arg, ret, repeat) ==
    [name |-> name, arg |-> arg, ret |-> ret, repeat |-> repeat]

\* CodeList::new(...): no entries; REGEX is not yet initialised.
Init ==
    /\ codelist = [entries |-> <<>>]
    /\ REGEX = Uninit
    /\ inits = 0
    /\ op = Call("new", <<>>, NoResult, FALSE)
    /\ codeSeen = [c \in PoolCodes |-> NoResult]
    /\ lastAll = NoResult
    /\ pc = [t \in Threads |-> "idle"]
    /\ tcode = [t \in Threads |-> <<>>]
    /\ tret = [t \in Threads |-> NoResult]
    /\ tpat = [t \in Threads |-> <<>>]
    /\ prov = new("ManuallyCreated", NoContributors, 0, 0)
    /\ now = 0
    /\ pop = PCall("new", <<>>, NoResult, FALSE)

\* How many times the closure ran when REGEX went from `before' to `after'.
Ran(before, after) ==
    IF before.state # "Init" /\ after.state = "Init" THEN 1 ELSE 0

(***************************************************************************)
(* One caller: the calls the tests make on a list                          *)
(***************************************************************************)
\* codelist.add_entry(code, term)
AddEntry(code) ==
    /\ Len(codelist.entries) < MaxEntries
    /\ codelist' = [entries |-> Append(codelist.entries, [code |-> code])]
    /\ op' = Call("add_entry", code, NoResult, FALSE)
    /\ lastAll' = NoResult
    /\ UNCHANGED <<REGEX, inits, codeSeen, threadVars, provVars>>

\* codelist.validate_code(code)
CallValidateCode(code) ==
    LET r == validate_code(codelist, REGEX, code)
    IN  /\ op' = Call("validate_code", code, r.ret, codeSeen[code] # NoResult)
        /\ REGEX' = r.lazy
        /\ inits' = inits + Ran(REGEX, r.lazy)
        /\ codelist' = r.self
        /\ codeSeen' = IF codeSeen[code] = NoResult
                       THEN [codeSeen EXCEPT ![code] = r.ret]
                       ELSE codeSeen
        /\ UNCHANGED <<lastAll, threadVars, provVars>>

\* codelist.validate_all_code()
CallValidateAllCode ==
    LET r == validate_all_code(codelist, REGEX)
    IN  /\ op' = Call("validate_all_code", <<>>, r.ret, lastAll # NoResult)
        /\ REGEX' = r.lazy
        /\ inits' = inits + Ran(REGEX, r.lazy)
        /\ codelist' = r.self
        /\ lastAll' = IF lastAll = NoResult THEN r.ret ELSE lastAll
        /\ UNCHANGED <<codeSeen, threadVars, provVars>>

Next ==
    \/ \E code \in PoolCodes : AddEntry(code)
    \/ \E code \in PoolCodes : CallValidateCode(code)
    \/ CallValidateAllCode

Spec == Init /\ [][Next]_vars

(***************************************************************************)
(* validate_code as a function of the code: every code over Alphabet       *)
(***************************************************************************)
CodeInit ==
    /\ codelist = [entries |-> <<>>]
    /\ REGEX = Uninit
    /\ inits = 0
    /\ op \in {Call("input", code, NoResult, FALSE) : code \in Codes}
    /\ codeSeen = [c \in PoolCodes |-> NoResult]
    /\ lastAll = NoResult
    /\ pc = [t \in Threads |-> "idle"]
    /\ tcode = [t \in Threads |-> <<>>]
    /\ tret = [t \in Threads |-> NoResult]
    /\ tpat = [t \in Threads |-> <<>>]
    /\ prov = new("ManuallyCreated", NoContributors, 0, 0)
    /\ now = 0
    /\ pop = PCall("new", <<>>, NoResult, FALSE)

ApplyValidateCode ==
    /\ op.name = "input"
    /\ LET r == validate_code(codelist, REGEX, op.arg)
       IN  /\ op' = Call("validate_code", op.arg, r.ret, FALSE)
           /\ REGEX' = r.lazy
           /\ inits' = inits + Ran(REGEX, r.lazy)
           /\ codelist' = r.self
    /\ UNCHANGED <<codeSeen, lastAll, threadVars, provVars>>

CodeNext == ApplyValidateCode

CodeSpec == CodeInit /\ [][CodeNext]_vars

(***************************************************************************)
(* Several threads in validate_code at once: LazyLock::force is            *)
(* Once::call_once, so the first thread to dereference REGEX runs the      *)
(* closure and the others wait until it has finished.                      *)
(***************************************************************************)
Running == [state |-> "Running", value |-> <<>>]

\* A thread calls validate_code(code).
TCall(t, code) ==
    /\ pc[t] = "idle"
    /\ pc' = [pc EXCEPT ![t] = "length"]
    /\ tcode' = [tcode EXCEPT ![t] = code]
    /\ tret' = [tret EXCEPT ![t] = NoResult]
    /\ tpat' = [tpat EXCEPT ![t] = <<>>]
    /\ UNCHANGED <<REGEX, inits, op, listVars, provVars>>

\* The two length checks: an early return, or on to the pattern.
TLength(t) ==
    /\ pc[t] = "length"
    /\ IF StrLen(tcode[t]) > 5 \/ StrLen(tcode[t]) < 3
       THEN /\ tret' = [tret EXCEPT
                            ![t] = validate_code(codelist, REGEX, tcode[t]).ret]
            /\ pc' = [pc EXCEPT ![t] = "done"]
       ELSE /\ pc' = [pc EXCEPT ![t] = "deref"]
            /\ UNCHANGED tret
    /\ UNCHANGED <<REGEX, inits, op, listVars, tcode, tpat, provVars>>

\* The dereference of a lazily set static that no Once guards: a thread
\* that finds the initialisation running starts it again.
TDerefUnguarded(t) ==
    /\ pc[t] = "deref"
    /\ \/ /\ REGEX.state \in {"Uninit", "Running"}
          /\ REGEX' = Running
          /\ pc' = [pc EXCEPT ![t] = "init"]
       \/ /\ REGEX.state = "Init"
          /\ pc' = [pc EXCEPT ![t] = "match"]
          /\ UNCHANGED REGEX
    /\ UNCHANGED <<inits, op, listVars, tcode, tret, tpat, provVars>>

\* The dereference of REGEX: the thread starts the initialisation, waits
\* for the one that runs, or finds the pattern.
TDeref(t) ==
    /\ pc[t] = "deref"
    /\ \/ /\ REGEX.state = "Uninit"
          /\ REGEX' = Running
          /\ pc' = [pc EXCEPT ![t] = "init"]
       \/ /\ REGEX.state = "Init"
          /\ pc' = [pc EXCEPT ![t] = "match"]
          /\ UNCHANGED REGEX
    /\ UNCHANGED <<inits, op, listVars, tcode, tret, tpat, provVars>>

\* The closure: Regex::new(...).expect(...); the pattern is well formed.
TRunInit(t) ==
    /\ pc[t] = "init"
    /\ REGEX' = Initialised(RegexNew)
    /\ inits' = inits + 1
    /\ pc' = [pc EXCEPT ![t] = "match"]
    /\ UNCHANGED <<op, listVars, tcode, tret, tpat, provVars>>

\* re.is_match(code) and the return.
TMatch(t) ==
    /\ pc[t] = "match"
    /\ tpat' = [tpat EXCEPT ![t] = REGEX.value]
    /\ tret' = [tret EXCEPT
                    ![t] = IF ~IsMatch(REGEX.value, tcode[t])
                           THEN invalid_code_contents(tcode[t],
                                    FormatReason(tcode[t],
                                        " does not match the expected format"))
                           ELSE Ok]
    /\ pc' = [pc EXCEPT ![t] = "done"]
    /\ UNCHANGED <<REGEX, inits, op, listVars, tcode, provVars>>

\* The caller has its result and may call again.
TReturn(t) ==
    /\ pc[t] = "done"
    /\ pc' = [pc EXCEPT ![t] = "idle"]
    /\ op' = Call("validate_code", tcode[t], tret[t], FALSE)
    /\ UNCHANGED <<REGEX, inits, listVars, tcode, tret, tpat, provVars>>

ConcNext ==
    \E t \in Threads :
        \/ \E code \in PoolCodes : TCall(t, code)
        \/ TLength(t)
        \/ TDeref(t)
        \/ TRunInit(t)
        \/ TMatch(t)
        \/ TReturn(t)

ConcSpec == Init /\ [][ConcNext]_vars

(***************************************************************************)
(* The calls on a Provenance                                               *)
(***************************************************************************)
\* Provenance::new(source, contributors): created_date is read from the
\* clock first, last_modified_date second.
ProvInit ==
    /\ codelist = [entries |-> <<>>]
    /\ REGEX = Uninit
    /\ inits = 0
    /\ op = Call("new", <<>>, NoResult, FALSE)
    /\ codeSeen = [c \in PoolCodes |-> NoResult]
    /\ lastAll = NoResult
    /\ pc = [t \in Threads |-> "idle"]
    /\ tcode = [t \in Threads |-> <<>>]
    /\ tret = [t \in Threads |-> NoResult]
    /\ tpat = [t \in Threads |-> <<>>]
    /\ \E t0 \in 0..1, t1 \in 0..1, source \in Sources,
          contributors \in {NoContributors}
                \cup {SomeContributors(set) : set \in SUBSET Names} :
          /\ t0 <= t1
          /\ prov = new(source, contributors, t0, t1)
          /\ now = t1
    /\ pop = PCall("new", <<>>, NoResult, FALSE)

\* Time passes: the clock does not go back.
Tick ==
    /\ now < MaxClock
    /\ now' = now + 1
    /\ pop' = PCall("tick", <<>>, NoResult, FALSE)
    /\ UNCHANGED <<prov, validatorVars>>

\* provenance.update_last_modified_date()
CallUpdateLastModifiedDate ==
    /\ prov' = update_last_modified_date(prov, now)
    /\ pop' = PCall("update_last_modified_date", <<>>, NoResult, FALSE)
    /\ UNCHANGED <<now, validatorVars>>

\* provenance.add_contributor(contributor)
CallAddContributor(contributor) ==
    /\ prov' = add_contributor(prov, contributor, now)
    /\ pop' = PCall("add_contributor", contributor, NoResult,
                    contributor \in prov.contributors)
    /\ UNCHANGED <<now, validatorVars>>

\* provenance.remove_contributor(contributor)
CallRemoveContributor(contributor) ==
    LET r == remove_contributor(prov, contributor)
    IN  /\ prov' = r.self
        /\ pop' = PCall("remove_contributor", contributor, r.ret,
                        contributor \in prov.contributors)
        /\ UNCHANGED <<now, validatorVars>>

ProvNext ==
    \/ Tick
    \/ CallUpdateLastModifiedDate
    \/ \E contributor \in Names : CallAddContributor(contributor)
    \/ \E contributor \in Names : CallRemoveContributor(contributor)

ProvSpec == ProvInit /\ [][ProvNext]_vars

(***************************************************************************)
(* Properties of validate_code (CodeSpec)                                  *)
(***************************************************************************)
\* Whether needle occurs in hay as a contiguous run.
Contains(hay, needle) ==
    \E i \in 0..(Len(hay) - Len(needle)) :
        \A k \in 1..Len(needle) : hay[i + k] = needle[k]

\* The OPCS grammar as the specification words it: one leading letter,
\* exactly two digits, then optionally a dot and 1-2 digits, or 1-2 digits.
Grammar(code, letters, digits) ==
    /\ Len(code) >= 3
    /\ code[1] \in letters
    /\ code[2] \in digits
    /\ code[3] \in digits
    /\ LET rest == SubSeq(code, 4, Len(code))
       IN  \/ rest = <<>>
           \/ /\ Len(rest) \in 2..3
              /\ rest[1] = "."
              /\ \A i \in 2..Len(rest) : rest[i] \in digits
           \/ /\ Len(rest) \in 1..2
              /\ \A i \in 1..Len(rest) : rest[i] \in digits

\* The grammar with the specification's letters and digits: ASCII A-Z, 0-9.
SpecGrammar(code) == Grammar(code, AsciiUpper, AsciiDigit)

Validated == op.name = "validate_code"

C3_LengthPrecedence ==
    (Validated /\ CharCount(op.arg) \notin 3..5) =>
        /\ op.ret # Ok
        /\ op.ret.tag = "InvalidCodeLength"
        /\ CharCount(op.arg) > 5 =>
              op.ret.reason = FormatReason(op.arg,
                    " is greater than 5 characters in length")
        /\ CharCount(op.arg) < 3 =>
              op.ret.reason = FormatReason(op.arg,
                    " is less than 3 characters in length")

\* C4: an accepted code starts with one of ASCII A-Z, holds only ASCII 0-9
\* (and the dot) after it, and so no non-ASCII letter or digit; and a code is
\* rejected for its length exactly when its number of characters is outside
\* 3..5.
C4_AsciiClassification ==
    Validated =>
        /\ op.ret = Ok =>
              /\ op.arg[1] \in AsciiUpper
              /\ \A i \in 2..Len(op.arg) : op.arg[i] \in AsciiDigit \cup {"."}
        /\ (op.ret # Ok /\ op.ret.tag = "InvalidCodeLength")
              <=> CharCount(op.arg) \notin 3..5

\* C5: an error carries the input unchanged as its code, and the message of
\* the one check that failed: "less than 3" below 3 characters, "greater
\* than 5" above 5, and for an in-bounds code that fails the pattern
\* InvalidCodeContents with "does not match the expected format".
C5_ErrorNamesInput ==
    (Validated /\ op.ret # Ok) =>
        /\ op.ret.code = op.arg
        /\ op.ret = IF CharCount(op.arg) < 3
                    THEN invalid_code_length(op.arg, FormatReason(op.arg,
                            " is less than 3 characters in length"))
                    ELSE IF CharCount(op.arg) > 5
                    THEN invalid_code_length(op.arg, FormatReason(op.arg,
                            " is greater than 5 characters in length"))
                    ELSE invalid_code_contents(op.arg, FormatReason(op.arg,
                            " does not match the expected format"))

(***************************************************************************)
(* Properties of validate_all_code (Spec)                                  *)
(***************************************************************************)
ValidatedAll == op.name = "validate_all_code"

\* The error validate_code returns for a code (Ok when it accepts it).
ErrorOf(code) == validate_code(codelist, REGEX, code).ret

\* The entries with a code validate_code rejects, in the order of the list.
InvalidEntries ==
    LET rejected(e) == ErrorOf(e.code) # Ok
    IN  SelectSeq(codelist.entries, rejected)

\* C1: validate_all_code returns Ok(()) iff no entry is invalid, and
\* otherwise InvalidCodelist with one reason per invalid entry, the i-th
\* carrying the code of the i-th invalid entry in scan order.
C1_Totality ==
    ValidatedAll =>
        /\ op.ret = Ok <=> Len(InvalidEntries) = 0
        /\ op.ret # Ok =>
              /\ op.ret.tag = "InvalidCodelist"
              /\ Len(op.ret.reasons) = Len(InvalidEntries)
              /\ \A i \in 1..Len(InvalidEntries) :
                    op.ret.reasons[i][1] = InvalidEntries[i].code

\* A list of three entries, the first and third with the same invalid code
\* and a valid one between them, gave two reasons.
C1_Witness ==
    /\ ValidatedAll
    /\ Len(codelist.entries) = 3
    /\ codelist.entries[1] = codelist.entries[3]
    /\ ErrorOf(codelist.entries[1].code) # Ok
    /\ ErrorOf(codelist.entries[2].code) = Ok
    /\ op.ret # Ok
    /\ Len(op.ret.reasons) = 2

\* C6: the pair appended for an invalid entry is the entry's code and the
\* Display rendering of the error validate_code returned for it, so the
\* rendered aggregate contains the variant's headline and the per-code
\* reason of every invalid code.
C6_ReasonIsRendering ==
    (ValidatedAll /\ op.ret # Ok) =>
        \A i \in 1..Len(InvalidEntries) :
            LET code == InvalidEntries[i].code
                err == ErrorOf(code)
                headline ==
                    IF err.tag = "InvalidCodeLength"
                    THEN <<"Code ">> \o code \o <<" is an invalid length">>
                    ELSE <<"Code ">> \o code \o <<" contents is invalid">>
            IN  /\ op.ret.reasons[i] = <<code, Display(err)>>
                /\ Contains(Display(op.ret), headline)
                /\ Contains(Display(op.ret), err.reason)

\* A list with a code of invalid length and one of invalid contents was
\* validated.
C6_Witness ==
    /\ ValidatedAll
    /\ op.ret # Ok
    /\ \E i, j \in 1..Len(InvalidEntries) :
          /\ ErrorOf(InvalidEntries[i].code).tag = "InvalidCodeLength"
          /\ ErrorOf(InvalidEntries[j].code).tag = "InvalidCodeContents"

\* C7: validate_all_code fails only with InvalidCodelist, whose reasons are
\* never empty; a list with no invalid code, the empty list included, gives
\* Ok(()), and a list of invalid codes only gives InvalidCodelist.
C7_AggregateNonEmpty ==
    ValidatedAll =>
        /\ op.ret.tag \in {"Ok", "InvalidCodelist"}
        /\ op.ret.tag = "InvalidCodelist" => Len(op.ret.reasons) > 0
        /\ Len(InvalidEntries) = 0 => op.ret = Ok
        /\ (Len(codelist.entries) > 0
              /\ Len(InvalidEntries) = Len(codelist.entries))
              => op.ret.tag = "InvalidCodelist"

\* The empty list was validated and gave Ok(()).
C7_Witness ==
    /\ ValidatedAll
    /\ codelist.entries = <<>>
    /\ op.ret = Ok

\* C8: a validate_code call returns what the first call on that code
\* returned, whatever the list held and however many calls ran between; a
\* validate_all_code call returns what the first call on the list returned
\* since the list last changed.
C8_Repeatable ==
    /\ (op.name = "validate_code" /\ op.arg \in PoolCodes)
          => op.ret = codeSeen[op.arg]
    /\ ValidatedAll => op.ret = lastAll

\* A code was validated again after the list had grown, and the list was
\* validated a second time.
C8_Witness ==
    \/ /\ op.name = "validate_code"
       /\ op.repeat
       /\ op.ret # Ok
       /\ Len(codelist.entries) > 1
    \/ /\ ValidatedAll
       /\ op.repeat
       /\ op.ret # Ok

\* C9: a validate_code or validate_all_code call leaves the list's entries
\* as they were, and the compiled pattern, once built, as it was.
C9_ListUnchanged ==
    [][op'.name \in {"validate_code", "validate_all_code"} =>
          /\ codelist' = codelist
          /\ REGEX.state = "Init" => REGEX' = REGEX]_vars

\* A list of three entries, some invalid, was validated and failed.
C9_Witness ==
    /\ ValidatedAll
    /\ op.ret # Ok
    /\ Len(codelist.entries) = 3
    /\ Len(InvalidEntries) \in 1..2

(***************************************************************************)
(* Properties of REGEX under concurrent callers (ConcSpec)                 *)
(***************************************************************************)
\* C10: the closure of REGEX runs at most once; once REGEX is initialised
\* it holds the compiled pattern and exactly one run took effect; a thread
\* at is_match finds REGEX initialised; and all threads that matched saw
\* the same pattern.
C10_InitialisedOnce ==
    /\ inits <= 1
    /\ REGEX.state = "Init" => (inits = 1 /\ REGEX.value = RegexNew)
    /\ REGEX.state = "Uninit" => inits = 0
    /\ \A t \in Threads : pc[t] = "match" => REGEX.state = "Init"
    /\ \A t \in Threads : pc[t] = "init" => REGEX.state = "Running"
    /\ \A t \in Threads : tpat[t] # <<>> => tpat[t] = RegexNew

\* Two threads make the first use at once: one runs the closure while the
\* other is at the dereference.
C10_Witness ==
    \E t1, t2 \in Threads :
        /\ t1 # t2
        /\ pc[t1] = "init"
        /\ pc[t2] = "deref"
        /\ REGEX.state = "Running"

(***************************************************************************)
(* Properties of Provenance (ProvSpec)                                     *)
(***************************************************************************)
\* C11: remove_contributor(c) returns Ok(()) exactly when c is in the set,
\* and the set is then the previous one without c; otherwise it returns
\* ContributorNotFound naming c, rendered "Contributor <c> not found", and
\* the set is as it was.  A remove_contributor(c) that directly follows
\* add_contributor(c) succeeds and leaves c absent.
C11_RemoveContributor ==
    [][pop'.name = "remove_contributor" =>
          LET c == pop'.arg
          IN  /\ pop'.ret = Ok <=> c \in prov.contributors
              /\ c \in prov.contributors =>
                    prov'.contributors = prov.contributors \ {c}
              /\ c \notin prov.contributors =>
                    /\ pop'.ret.tag = "ContributorNotFound"
                    /\ pop'.ret.contributor = c
                    /\ DisplayCodeListError(pop'.ret)
                          = <<"Contributor ">> \o c \o <<" not found">>
                    /\ prov'.contributors = prov.contributors
              /\ (pop.name = "add_contributor" /\ pop.arg = c) =>
                    /\ pop'.ret = Ok
                    /\ c \notin prov'.contributors]_vars

\* A contributor that is not in a non-empty set was removed: the call
\* returned ContributorNotFound and the others are still there.
C11_Witness ==
    /\ pop.name = "remove_contributor"
    /\ ~pop.present
    /\ pop.ret # Ok
    /\ prov.contributors # {}

\* C12: add_contributor and remove_contributor leave source, created_date
\* and last_modified_date as they were; update_last_modified_date changes
\* only last_modified_date; no call changes created_date, and created_date
\* <= last_modified_date throughout; add_contributor of a name already in
\* the set leaves the set as it was.
C12_ProvenanceFrame ==
    /\ prov.created_date <= prov.last_modified_date
    /\ [][/\ pop'.name \in {"add_contributor", "remove_contributor"} =>
                /\ prov'.source = prov.source
                /\ prov'.created_date = prov.created_date
                /\ prov'.last_modified_date = prov.last_modified_date
          /\ pop'.name = "update_last_modified_date" =>
                /\ prov'.source = prov.source
                /\ prov'.created_date = prov.created_date
                /\ prov'.contributors = prov.contributors
                /\ prov'.last_modified_date = now
          /\ prov'.created_date = prov.created_date
          /\ prov'.created_date <= prov'.last_modified_date
          /\ (pop'.name = "add_contributor"
                /\ pop'.arg \in prov.contributors) =>
                prov'.contributors = prov.contributors]_vars

\* A name already in the set was added after the clock had moved on: the
\* last-modified date is older than the clock.
C12_Witness ==
    /\ pop.name = "add_contributor"
    /\ pop.present
    /\ prov.last_modified_date < now
    /\ Cardinality(prov.contributors) = 2

=============================================================================
